---- MODULE Spec2Model ----
(***************************************************************************)
(* Model of include/extractor/node_based_edge.hpp: the classification      *)
(* flags, the annotation record, the edge record, their combinability      *)
(* predicates and the edge comparator, together with the sort and the      *)
(* merge walk that use them.                                               *)
(***************************************************************************)
EXTENDS Integers, Sequences, FiniteSets, TLC

\* ------------------------------------------------------------------ bounds
\* Node identifiers of real nodes are 0..MaxNode.
MaxNode == 1
\* Weights and durations are 0..MaxWeight.
MaxWeight == 1
\* Road classifications, name ids, class bitsets, lane ids and geometry ids
\* are 0..MaxAux.
MaxAux == 1
\* Width of the unsigned identifier types (std::uint32_t in the source),
\* scaled down so that the wrap-around of -1 stays representable.
IdBits == 3

\* ------------------------------------------------------------- primitives
\* TravelMode is a bit-field of 4 bits.
TravelModeBits == 4

IdModulus == 2 ^ IdBits

\* Conversion of an int to an unsigned identifier type.
ToUnsigned(v) == v % IdModulus

\* SPECIAL_NODEID is the maximum NodeID.
SPECIAL_NODEID == IdModulus - 1

\* The maximum representable AnnotationID, the "unassigned" value.
MaxAnnotationID == IdModulus - 1

\* Conversion of a bool to a one-bit bit-field.
Bit(v) == IF v THEN 1 ELSE 0

\* Conversion of a one-bit bit-field to bool.
Truth(v) == v # 0

\* ------------------------------------------ NodeBasedEdgeClassification
\* The constructor from seven bools and a road classification.
NodeBasedEdgeClassification(forward, backward, is_split, roundabout, circular, startpoint, restricted, road_classification) ==
    [forward |-> Bit(forward), backward |-> Bit(backward),
     is_split |-> Bit(is_split), roundabout |-> Bit(roundabout),
     circular |-> Bit(circular), startpoint |-> Bit(startpoint),
     restricted |-> Bit(restricted),
     road_classification |-> road_classification]

\* The default constructor; road_classification is default-constructed too.
NodeBasedEdgeClassification_Default ==
    NodeBasedEdgeClassification(FALSE, FALSE, FALSE, FALSE, FALSE, FALSE, FALSE, 0)

\* CanCombineWith without the comparison of is_split.
Classification_CanCombineWith_NoSplit(self, other) ==
    /\ self.road_classification = other.road_classification
    /\ self.forward = other.forward
    /\ self.backward = other.backward
    /\ self.roundabout = other.roundabout
    /\ self.circular = other.circular
    /\ self.startpoint = other.startpoint
    /\ self.restricted = other.restricted

\* CanCombineWith with is_split compared to itself.
Classification_CanCombineWith_SplitIgnoresOther(self, other) ==
    /\ Classification_CanCombineWith_NoSplit(self, other)
    /\ Truth(self.is_split) = Truth(self.is_split)

\* CanCombineWith without the comparisons of forward and backward.
Classification_CanCombineWith_NoDirection(self, other) ==
    /\ self.road_classification = other.road_classification
    /\ self.is_split = other.is_split
    /\ self.roundabout = other.roundabout
    /\ self.circular = other.circular
    /\ self.startpoint = other.startpoint
    /\ self.restricted = other.restricted

\* NodeBasedEdgeClassification::CanCombineWith
Classification_CanCombineWith(self, other) ==
    /\ self.road_classification = other.road_classification
    /\ self.forward = other.forward
    /\ self.backward = other.backward
    /\ self.is_split = other.is_split
    /\ self.roundabout = other.roundabout
    /\ self.circular = other.circular
    /\ self.startpoint = other.startpoint
    /\ self.restricted = other.restricted

\* ---------------------------------------------- NodeBasedEdgeAnnotation
\* An annotation record; travel_mode is stored in its bit-field.
NodeBasedEdgeAnnotation(name_id, travel_mode, classes, lane_description_id) ==
    [name_id |-> name_id, travel_mode |-> travel_mode % (2 ^ TravelModeBits),
     classes |-> classes, lane_description_id |-> lane_description_id]

\* CanCombineWith with lane_description_id in the tuple.
Annotation_CanCombineWith_WithLanes(self, other) ==
    /\ <<self.name_id, self.classes, self.lane_description_id>> =
           <<other.name_id, other.classes, other.lane_description_id>>
    /\ self.travel_mode = other.travel_mode

\* NodeBasedEdgeAnnotation::CanCombineWith
Annotation_CanCombineWith(self, other) ==
    /\ <<self.name_id, self.classes>> = <<other.name_id, other.classes>>
    /\ self.travel_mode = other.travel_mode

\* ---------------------------------------------------------- NodeBasedEdge
\* The constructor from all seven fields.
NodeBasedEdge(source, target, weight, duration, geometry_id, annotation_data, flags) ==
    [source |-> source, target |-> target, weight |-> weight,
     duration |-> duration, geometry_id |-> geometry_id,
     annotation_data |-> annotation_data, flags |-> flags]

\* The default constructor with annotation_data(0).
NodeBasedEdge_Default_ZeroAnnotation(geometry_id) ==
    NodeBasedEdge(SPECIAL_NODEID, SPECIAL_NODEID, 0, 0, geometry_id,
                  ToUnsigned(0), NodeBasedEdgeClassification_Default)

\* The default constructor.  geometry_id is not in the initializer list, so
\* its value is whatever its own default construction leaves: a parameter.
NodeBasedEdge_Default(geometry_id) ==
    NodeBasedEdge(SPECIAL_NODEID, SPECIAL_NODEID, 0, 0, geometry_id,
                  ToUnsigned(-1), NodeBasedEdgeClassification_Default)

\* operator< with target compared before source.
operator_less_TargetFirst(self, other) ==
    IF self.target = other.target
    THEN IF self.source = other.source
         THEN IF self.weight = other.weight
              THEN /\ Truth(self.flags.forward) /\ Truth(self.flags.backward)
                   /\ (~Truth(other.flags.forward) \/ ~Truth(other.flags.backward))
              ELSE self.weight < other.weight
         ELSE self.source < other.source
    ELSE self.target < other.target

\* operator< with the tie broken by forward || backward.
operator_less_TieEitherDirection(self, other) ==
    IF self.source = other.source
    THEN IF self.target = other.target
         THEN IF self.weight = other.weight
              THEN /\ (Truth(self.flags.forward) \/ Truth(self.flags.backward))
                   /\ (~Truth(other.flags.forward) \/ ~Truth(other.flags.backward))
              ELSE self.weight < other.weight
         ELSE self.target < other.target
    ELSE self.source < other.source

\* operator< with remaining ties broken by duration.
operator_less_TieByDuration(self, other) ==
    IF self.source = other.source
    THEN IF self.target = other.target
         THEN IF self.weight = other.weight
              THEN IF Truth(self.flags.forward) /\ Truth(self.flags.backward)
                      /\ (~Truth(other.flags.forward) \/ ~Truth(other.flags.backward))
                   THEN TRUE
                   ELSE self.duration < other.duration
              ELSE self.weight < other.weight
         ELSE self.target < other.target
    ELSE self.source < other.source

\* operator< with the tie broken by the other record's flags alone.
operator_less_TieNotOtherBidirectional(self, other) ==
    IF self.source = other.source
    THEN IF self.target = other.target
         THEN IF self.weight = other.weight
              THEN ~Truth(other.flags.forward) \/ ~Truth(other.flags.backward)
              ELSE self.weight < other.weight
         ELSE self.target < other.target
    ELSE self.source < other.source

\* NodeBasedEdge::operator<
operator_less(self, other) ==
    IF self.source = other.source
    THEN IF self.target = other.target
         THEN IF self.weight = other.weight
              THEN /\ Truth(self.flags.forward) /\ Truth(self.flags.backward)
                   /\ (~Truth(other.flags.forward) \/ ~Truth(other.flags.backward))
              ELSE self.weight < other.weight
         ELSE self.target < other.target
    ELSE self.source < other.source

\* ------------------------------------------------------------------ state
VARIABLES
    a, b, c,        \* edge records handed to the comparator, the sort, the merge
    cmp,            \* results of operator< on them, or "none"
    fx, fy, fres,   \* two classification values and CanCombineWith's result
    ax, ay, ares,   \* two annotation records and CanCombineWith's result
    edges,          \* the edge sequence being sorted and walked
    out,            \* the output of the merge walk
    pc              \* position of the run

vars == <<a, b, c, cmp, fx, fy, fres, ax, ay, ares, edges, out, pc>>

NodeIDs == 0..MaxNode
Weights == 0..MaxWeight
AuxIDs == 0..MaxAux
TravelModes == 0..(2 ^ TravelModeBits - 1)

\* Every classification value.
Classifications ==
    {NodeBasedEdgeClassification(f, bw, s, r, ci, st, re, rc) :
        f \in BOOLEAN, bw \in BOOLEAN, s \in BOOLEAN, r \in BOOLEAN,
        ci \in BOOLEAN, st \in BOOLEAN, re \in BOOLEAN, rc \in AuxIDs}

\* Every annotation record.
Annotations ==
    {NodeBasedEdgeAnnotation(n, m, cl, l) :
        n \in AuxIDs, m \in TravelModes, cl \in AuxIDs, l \in AuxIDs}

\* The annotation table: entries 1 and 2 differ in lane_description_id only,
\* entry 3 has another name.  AnnotationID i refers to entry i + 1.
AnnotationTable ==
    <<NodeBasedEdgeAnnotation(0, 0, 0, 0),
      NodeBasedEdgeAnnotation(0, 0, 0, 1),
      NodeBasedEdgeAnnotation(1, 0, 0, 0)>>

AnnotationIDs == {i - 1 : i \in DOMAIN AnnotationTable}

Annotation(id) == AnnotationTable[id + 1]

\* Classification values that differ from the default in the direction bits only.
DirectionFlags ==
    {NodeBasedEdgeClassification(f, bw, FALSE, FALSE, FALSE, FALSE, FALSE, 0) :
        f \in BOOLEAN, bw \in BOOLEAN}

\* Edge records in which only source, target, weight and direction vary.
CoreEdges ==
    {NodeBasedEdge(s, t, w, 0, 0, 0, fl) :
        s \in NodeIDs, t \in NodeIDs, w \in Weights, fl \in DirectionFlags}

\* The fields the comparator's key does not name, with at most one of them
\* off its default.
OtherFields ==
    {[duration |-> d, geometry_id |-> 0, annotation_data |-> 0, is_split |-> FALSE,
      roundabout |-> FALSE, circular |-> FALSE, startpoint |-> FALSE,
      restricted |-> FALSE, road_classification |-> 0] : d \in Weights}
    \cup
    {[duration |-> 0, geometry_id |-> g, annotation_data |-> 0, is_split |-> FALSE,
      roundabout |-> FALSE, circular |-> FALSE, startpoint |-> FALSE,
      restricted |-> FALSE, road_classification |-> 0] : g \in AuxIDs}
    \cup
    {[duration |-> 0, geometry_id |-> 0, annotation_data |-> n, is_split |-> FALSE,
      roundabout |-> FALSE, circular |-> FALSE, startpoint |-> FALSE,
      restricted |-> FALSE, road_classification |-> 0] :
        n \in {1, MaxAnnotationID}}
    \cup
    {[duration |-> 0, geometry_id |-> 0, annotation_data |-> 0, is_split |-> FALSE,
      roundabout |-> FALSE, circular |-> FALSE, startpoint |-> FALSE,
      restricted |-> FALSE, road_classification |-> rc] : rc \in AuxIDs}
    \cup
    {[duration |-> 0, geometry_id |-> 0, annotation_data |-> 0, is_split |-> k = 1,
      roundabout |-> k = 2, circular |-> k = 3, startpoint |-> k = 4,
      restricted |-> k = 5, road_classification |-> 0] : k \in 1..5}

\* Edge records for the comparator: every key and direction, with OtherFields.
EdgeOperands ==
    {NodeBasedEdge(s, t, w, o.duration, o.geometry_id, o.annotation_data,
                   NodeBasedEdgeClassification(f, bw, o.is_split, o.roundabout,
                                               o.circular, o.startpoint, o.restricted,
                                               o.road_classification)) :
        s \in NodeIDs, t \in NodeIDs, w \in Weights,
        f \in BOOLEAN, bw \in BOOLEAN, o \in OtherFields}

\* Default-constructed edge records.
DefaultEdges == {NodeBasedEdge_Default(g) : g \in AuxIDs}

\* Edge records handed to the sort and the merge walk.
PipelineEdges ==
    {NodeBasedEdge(s, t, w, d, 0, n, fl) :
        s \in NodeIDs, t \in NodeIDs, w \in Weights, d \in Weights,
        n \in AnnotationIDs \cup {MaxAnnotationID}, fl \in DirectionFlags}
    \cup DefaultEdges

IdleEdge == NodeBasedEdge(0, 0, 0, 0, 0, 0, NodeBasedEdgeClassification_Default)
IdleAnnotation == NodeBasedEdgeAnnotation(0, 0, 0, 0)

IdleEdgeOperands == a = IdleEdge /\ b = IdleEdge /\ c = IdleEdge /\ cmp = "none"
IdleClassification ==
    /\ fx = NodeBasedEdgeClassification_Default
    /\ fy = NodeBasedEdgeClassification_Default
    /\ fres = "none"
IdleAnnotations == ax = IdleAnnotation /\ ay = IdleAnnotation /\ ares = "none"
IdlePipeline == edges = <<>> /\ out = <<>>

\* ---------------------------------------------------------------- helpers
Key(e) == <<e.source, e.target, e.weight>>

Bidirectional(e) == Truth(e.flags.forward) /\ Truth(e.flags.backward)

\* The sequences a sort with operator< may return for input s: the
\* rearrangements of s in which no element is less than an earlier one.
IsSorted(s) == \A i \in DOMAIN s : \A j \in DOMAIN s : i < j => ~operator_less(s[j], s[i])

Rearrangements(s) ==
    {[i \in DOMAIN s |-> s[f[i]]] : f \in Permutations(DOMAIN s)}

SortedRearrangements(s) == {p \in Rearrangements(s) : IsSorted(p)}

Min(m, n) == IF m < n THEN m ELSE n
BitOr(m, n) == IF m = 1 \/ n = 1 THEN 1 ELSE 0

\* ------------------------------------------------------------ merge walk
Unassigned(e) == e.annotation_data = MaxAnnotationID

\* Two adjacent records are combinable.
Combinable(x, y) ==
    /\ x.source = y.source /\ x.target = y.target
    /\ Classification_CanCombineWith(x.flags, y.flags)
    /\ Annotation_CanCombineWith(Annotation(x.annotation_data), Annotation(y.annotation_data))

\* The record two combinable records merge into.
Merged(x, y) ==
    [x EXCEPT !.weight = Min(x.weight, y.weight),
              !.duration = Min(x.duration, y.duration),
              !.flags.forward = BitOr(x.flags.forward, y.flags.forward),
              !.flags.backward = BitOr(x.flags.backward, y.flags.backward)]

\* One step of the walk: e joins the last output record or is appended.
WalkStep(acc, e) ==
    IF acc # <<>> /\ Combinable(acc[Len(acc)], e)
    THEN [acc EXCEPT ![Len(acc)] = Merged(acc[Len(acc)], e)]
    ELSE Append(acc, e)

RECURSIVE MergeWalk(_, _)
MergeWalk(acc, s) ==
    IF s = <<>> THEN acc ELSE MergeWalk(WalkStep(acc, Head(s)), Tail(s))

\* ------------------------------------------------------------- operations
\* operator< applied to every pair among a, b, c.
Compare ==
    /\ pc = "start"
    /\ cmp' = [aa |-> operator_less(a, a), ab |-> operator_less(a, b), ac |-> operator_less(a, c),
               ba |-> operator_less(b, a), bb |-> operator_less(b, b), bc |-> operator_less(b, c),
               ca |-> operator_less(c, a), cb |-> operator_less(c, b), cc |-> operator_less(c, c)]
    /\ pc' = "compared"
    /\ UNCHANGED <<a, b, c, fx, fy, fres, ax, ay, ares, edges, out>>

\* The edge sequence is sorted with operator<.
Sort ==
    /\ pc = "compared"
    /\ edges' \in SortedRearrangements(edges)
    /\ pc' = "sorted"
    /\ UNCHANGED <<a, b, c, cmp, fx, fy, fres, ax, ay, ares, out>>

\* The merge walk over the sorted sequence; an unassigned annotation
\* reference is a precondition violation signalled to the caller.
Merge ==
    /\ pc = "sorted"
    /\ IF \E i \in DOMAIN edges : Unassigned(edges[i])
       THEN /\ pc' = "precondition_violation"
            /\ out' = out
       ELSE /\ pc' = "merged"
            /\ out' = MergeWalk(<<>>, edges)
    /\ UNCHANGED <<a, b, c, cmp, fx, fy, fres, ax, ay, ares, edges>>

\* NodeBasedEdgeClassification::CanCombineWith applied to fx and fy.
CombineClassification ==
    /\ pc = "start"
    /\ fres' = Classification_CanCombineWith(fx, fy)
    /\ pc' = "combined"
    /\ UNCHANGED <<a, b, c, cmp, fx, fy, ax, ay, ares, edges, out>>

\* NodeBasedEdgeAnnotation::CanCombineWith applied to ax and ay.
CombineAnnotation ==
    /\ pc = "start"
    /\ ares' = Annotation_CanCombineWith(ax, ay)
    /\ pc' = "combined"
    /\ UNCHANGED <<a, b, c, cmp, fx, fy, fres, ax, ay, edges, out>>

\* ---------------------------------------------------------- specifications
\* The comparator on three records.
Init_Triple ==
    /\ a \in CoreEdges /\ b \in CoreEdges /\ c \in CoreEdges
    /\ cmp = "none"
    /\ IdleClassification /\ IdleAnnotations /\ IdlePipeline
    /\ pc = "start"

Next_Triple == Compare

Spec_Triple == Init_Triple /\ [][Next_Triple]_vars

\* The comparator on two records, and the sort of the two.
Init_Pair ==
    /\ a \in EdgeOperands /\ b \in EdgeOperands /\ c = a
    /\ cmp = "none"
    /\ IdleClassification /\ IdleAnnotations
    /\ edges = <<a, b>> /\ out = <<>>
    /\ pc = "start"

Next_Pair == Compare \/ Sort

Spec_Pair == Init_Pair /\ [][Next_Pair]_vars

\* The comparator, the sort and the merge walk on two records.
Init_Merge ==
    /\ a \in PipelineEdges /\ b \in PipelineEdges /\ c = a
    /\ cmp = "none"
    /\ IdleClassification /\ IdleAnnotations
    /\ edges = <<a, b>> /\ out = <<>>
    /\ pc = "start"

Next_Merge == Compare \/ Sort \/ Merge

Spec_Merge == Init_Merge /\ [][Next_Merge]_vars

\* CanCombineWith on two classification values.
Init_Class ==
    /\ fx \in Classifications /\ fy \in Classifications /\ fres = "none"
    /\ IdleEdgeOperands /\ IdleAnnotations /\ IdlePipeline
    /\ pc = "start"

Next_Class == CombineClassification

Spec_Class == Init_Class /\ [][Next_Class]_vars

\* CanCombineWith on two annotation records.
Init_Annot ==
    /\ ax \in Annotations /\ ay \in Annotations /\ ares = "none"
    /\ IdleEdgeOperands /\ IdleClassification /\ IdlePipeline
    /\ pc = "start"

Next_Annot == CombineAnnotation

Spec_Annot == Init_Annot /\ [][Next_Annot]_vars

\* ------------------------------------------------------------ properties
Compared == pc \in {"compared", "sorted", "merged", "precondition_violation"}

\* C1: operator< orders two records lexicographically by (source, target,
\* weight) ascending; when the keys differ no other field has any influence.
C1_LexicographicOrder ==
    Compared =>
        IF a.source # b.source THEN cmp.ab = (a.source < b.source)
        ELSE IF a.target # b.target THEN cmp.ab = (a.target < b.target)
        ELSE IF a.weight # b.weight THEN cmp.ab = (a.weight < b.weight)
        ELSE TRUE

C1_Witness ==
    /\ pc = "compared"
    /\ a.source = b.source /\ a.target = b.target /\ a.weight < b.weight
    /\ ~Bidirectional(a) /\ Bidirectional(b) /\ a.flags.restricted # b.flags.restricted
    /\ cmp.ab /\ ~cmp.ba

\* C2: with equal source, target and weight, a < b iff a has forward and
\* backward set and b has one of them unset; so in a sorted sequence a fully
\* bidirectional record never comes after a record of the same key that is
\* not fully bidirectional.
C2_BidirectionalFirst ==
    /\ (Compared /\ Key(a) = Key(b)) =>
           (cmp.ab <=> (Bidirectional(a) /\ ~Bidirectional(b)))
    /\ pc = "sorted" =>
           \A i \in DOMAIN edges : \A j \in DOMAIN edges :
               (i < j /\ Key(edges[i]) = Key(edges[j])) =>
                   ~(Bidirectional(edges[j]) /\ ~Bidirectional(edges[i]))

C2_Witness ==
    /\ pc = "sorted"
    /\ Key(a) = Key(b) /\ ~Bidirectional(a) /\ Bidirectional(b)
    /\ a.duration # b.duration
    /\ cmp.ba /\ ~cmp.ab
    /\ edges = <<b, a>>

\* C3 as stated: any two records that are not identical in every field are
\* ordered one way or the other, so a sort has one possible output.
C3_TotalOrder ==
    (Compared /\ a # b) => (cmp.ab # cmp.ba)

\* Two records tie: same key, and both or neither fully bidirectional.
Tied(x, y) == Key(x) = Key(y) /\ (Bidirectional(x) <=> Bidirectional(y))

\* C3 (amended): operator< never orders two records both ways; it orders
\* them exactly one way iff they differ in (source, target, weight) or
\* exactly one of them is fully bidirectional; records that tie are ordered
\* neither way whatever their other fields, and a sort fixes the output
\* only where the records do not tie.
C3_OrderUpToTies ==
    /\ Compared =>
           /\ ~(cmp.ab /\ cmp.ba)
           /\ ~Tied(a, b) => (cmp.ab # cmp.ba)
           /\ Tied(a, b) => (~cmp.ab /\ ~cmp.ba)
    /\ (pc = "sorted" /\ ~Tied(a, b)) =>
           edges = IF operator_less(a, b) THEN <<a, b>> ELSE <<b, a>>

C3_Witness ==
    /\ pc = "sorted"
    /\ a # b /\ Tied(a, b)
    /\ ~cmp.ab /\ ~cmp.ba
    /\ edges = <<b, a>>

Irreflexive == ~cmp.aa /\ ~cmp.bb /\ ~cmp.cc
Asymmetric == ~(cmp.ab /\ cmp.ba) /\ ~(cmp.bc /\ cmp.cb) /\ ~(cmp.ac /\ cmp.ca)
Transitive == (cmp.ab /\ cmp.bc) => cmp.ac
IncomparabilityTransitive ==
    (~cmp.ab /\ ~cmp.ba /\ ~cmp.bc /\ ~cmp.cb) => (~cmp.ac /\ ~cmp.ca)

\* C10: operator< is a strict weak ordering: irreflexive, asymmetric,
\* transitive, and with transitive incomparability, also among records
\* separated only by the forward/backward tie-break.
C10_StrictWeakOrder ==
    Compared =>
        Irreflexive /\ Asymmetric /\ Transitive /\ IncomparabilityTransitive

C10_Witness ==
    /\ pc = "compared"
    /\ Key(a) = Key(b) /\ Key(b) = Key(c)
    /\ a # b /\ b # c /\ a # c
    /\ cmp.ab /\ cmp.ac
    /\ ~cmp.bc /\ ~cmp.cb

ClassificationFields ==
    {"road_classification", "forward", "backward", "is_split", "roundabout",
     "circular", "startpoint", "restricted"}

\* fx and fy agree on every field but, possibly, is_split.
AgreeButSplit == \A f \in ClassificationFields \ {"is_split"} : fx[f] = fy[f]

\* C4: CanCombineWith on two classification values is true iff all eight
\* fields are pairwise equal, is_split included.
C4_ClassificationCombinable ==
    pc = "combined" =>
        (fres <=> \A f \in ClassificationFields : fx[f] = fy[f])

C4_Witness ==
    /\ pc = "combined"
    /\ AgreeButSplit /\ fx.is_split # fy.is_split
    /\ fres = FALSE

\* C8 as stated: is_split does not gate combinability; values that agree on
\* the seven other fields are combinable whatever their is_split.
C8_SplitIgnored ==
    (pc = "combined" /\ AgreeButSplit) => fres = TRUE

\* C8 (amended): is_split gates combinability; values that agree on the
\* seven other fields are combinable iff their is_split values are equal.
C8_SplitGates ==
    (pc = "combined" /\ AgreeButSplit) => (fres <=> fx.is_split = fy.is_split)

C8_Witness ==
    /\ pc = "combined"
    /\ AgreeButSplit /\ fx.is_split = 1 /\ fy.is_split = 0
    /\ fx.roundabout = 1
    /\ fres = FALSE

\* C5: CanCombineWith on two annotation records is true iff name_id, classes
\* and travel_mode are equal; lane_description_id plays no part.
C5_AnnotationCombinable ==
    pc = "combined" =>
        (ares <=> (/\ ax.name_id = ay.name_id
                   /\ ax.classes = ay.classes
                   /\ ax.travel_mode = ay.travel_mode))

C5_Witness ==
    /\ pc = "combined"
    /\ ax.lane_description_id # ay.lane_description_id
    /\ ares = TRUE

\* x and y are records of one segment with the same weight, duration and
\* annotation and the same classification but for the direction bits.
SameSegment(x, y) ==
    /\ x.source = y.source /\ x.target = y.target
    /\ x.weight = y.weight /\ x.duration = y.duration
    /\ x.annotation_data = y.annotation_data
    /\ \A f \in ClassificationFields \ {"forward", "backward"} :
           x.flags[f] = y.flags[f]

ForwardOnly(e) == Truth(e.flags.forward) /\ ~Truth(e.flags.backward)
BackwardOnly(e) == ~Truth(e.flags.forward) /\ Truth(e.flags.backward)

OppositePair ==
    /\ SameSegment(a, b)
    /\ \/ ForwardOnly(a) /\ BackwardOnly(b)
       \/ BackwardOnly(a) /\ ForwardOnly(b)

====
